---------------------------- MODULE Spec2Model ----------------------------
(***************************************************************************)
(* Model of app.py, a Dash page about radiation exposure.                  *)
(*                                                                         *)
(* The module-level data (the dose catalog, its table, the dose axis and   *)
(* the three dose-response curves) is built when the module is loaded; the *)
(* only operation afterwards is the callback update_dose, which Dash runs  *)
(* with the values of its two Inputs and whose return value becomes the    *)
(* children of its Output.                                                 *)
(*                                                                         *)
(* Numbers are exact rationals [n, d] in lowest terms with d > 0: a        *)
(* decimal literal such as 0.04 is 1/25.  The binary rounding of IEEE      *)
(* doubles (below 1e-13 for every value that occurs here) is not modelled. *)
(* np.exp is modelled by a rational enclosure [lo, hi] of its value.       *)
(***************************************************************************)
EXTENDS Integers, Sequences, FiniteSets, TLC

(***************************************************************************)
(* Bounds of the exploration: the integers a callback request may carry    *)
(* range over -MaxNeg .. MaxFlights and -MaxNeg .. MaxXrays.               *)
(***************************************************************************)
MaxFlights == 52
MaxXrays == 12
MaxNeg == 2

(***************************************************************************)
(* Exact rational arithmetic.                                              *)
(***************************************************************************)
Abs(a) == IF a < 0 THEN -a ELSE a

RECURSIVE GCD(_, _)
GCD(a, b) == IF b = 0 THEN a ELSE GCD(b, a % b)

Rat(n, d) ==
    LET s == IF d < 0 THEN -1 ELSE 1
        g == GCD(Abs(n), Abs(d))
    IN  [n |-> (s * n) \div g, d |-> (s * d) \div g]

IntR(k) == Rat(k, 1)
Dec(units, scale) == Rat(units, scale)

RAdd(a, b) == Rat(a.n * b.d + b.n * a.d, a.d * b.d)
RNeg(a) == [n |-> -a.n, d |-> a.d]
RSub(a, b) == RAdd(a, RNeg(b))
RMul(a, b) == Rat(a.n * b.n, a.d * b.d)
RDiv(a, b) == Rat(a.n * b.d, a.d * b.n)
RLt(a, b) == a.n * b.d < b.n * a.d
RLe(a, b) == a.n * b.d <= b.n * a.d
RMax(a, b) == IF RLt(a, b) THEN b ELSE a

Zero == IntR(0)
One == IntR(1)

(***************************************************************************)
(* Python values that a callback request can carry for an Input.           *)
(***************************************************************************)
None == [t |-> "NoneType"]
PyInt(k) == [t |-> "int", v |-> k]
IsInt(x) == x.t = "int"

(***************************************************************************)
(* radiation_sources: a dict literal.  A dict keeps its keys in insertion  *)
(* order and a repeated key overwrites the value of the first occurrence.  *)
(***************************************************************************)
DictSet(dict, k, val) ==
    IF \E i \in 1..Len(dict) : dict[i][1] = k
    THEN [i \in 1..Len(dict) |-> IF dict[i][1] = k THEN <<k, val>> ELSE dict[i]]
    ELSE Append(dict, <<k, val>>)

RECURSIVE DictLiteral(_)
DictLiteral(pairs) ==
    IF pairs = << >> THEN << >>
    ELSE LET n == Len(pairs)
         IN  DictSet(DictLiteral(SubSeq(pairs, 1, n - 1)), pairs[n][1], pairs[n][2])

(* variant: the third key repeats the second one *)
radiation_sources_repeated_key ==
    DictLiteral(<<
        <<"Background Radiation (Annual Avg)", Dec(30, 10)>>,
        <<"Chest X-ray", Dec(1, 10)>>,
        <<"Chest X-ray", Dec(5, 1000)>>,
        <<"Mammogram", Dec(4, 10)>>,
        <<"CT Scan (Abdomen)", Dec(80, 10)>>,
        <<"Flight (NYC to LA)", Dec(4, 100)>>,
        <<"Smoking (1 pack/day, Annual)", Dec(700, 10)>>,
        <<"Fukushima Evacuation Zone (Annual)", Dec(120, 10)>> >>)

radiation_sources_init ==
    DictLiteral(<<
        <<"Background Radiation (Annual Avg)", Dec(30, 10)>>,
        <<"Chest X-ray", Dec(1, 10)>>,
        <<"Dental X-ray", Dec(5, 1000)>>,
        <<"Mammogram", Dec(4, 10)>>,
        <<"CT Scan (Abdomen)", Dec(80, 10)>>,
        <<"Flight (NYC to LA)", Dec(4, 100)>>,
        <<"Smoking (1 pack/day, Annual)", Dec(700, 10)>>,
        <<"Fukushima Evacuation Zone (Annual)", Dec(120, 10)>> >>)

(***************************************************************************)
(* df = pd.DataFrame(list(radiation_sources.items()), columns=[...]):      *)
(* one row per item, in the order of the items; the column "Dose (mSv)" is *)
(* the field Dose.                                                         *)
(***************************************************************************)
DataFrame(items) ==
    [i \in 1..Len(items) |-> [Source |-> items[i][1], Dose |-> items[i][2]]]

df_init == DataFrame(radiation_sources_init)

(***************************************************************************)
(* dose_values = np.linspace(0, 100, 100): num samples, the k-th (from 0)  *)
(* is start + k * step with step = (stop - start) / (num - 1), and the     *)
(* last one is set to stop.                                                *)
(***************************************************************************)
linspace_start == 0
linspace_stop == 100
linspace_num == 100

(* variant: the samples exclude the end point (endpoint=False) *)
np_linspace_no_endpoint(start, stop, num) ==
    LET step == RDiv(IntR(stop - start), IntR(num))
    IN  [i \in 1..num |-> RAdd(RMul(IntR(i - 1), step), IntR(start))]

np_linspace(start, stop, num) ==
    LET div == num - 1
        step == RDiv(IntR(stop - start), IntR(div))
    IN  [i \in 1..num |->
            IF i = num THEN IntR(stop)
            ELSE RAdd(RMul(IntR(i - 1), step), IntR(start))]

dose_values_init == np_linspace(linspace_start, linspace_stop, linspace_num)

(***************************************************************************)
(* lnt_risk = dose_values * 0.01, element by element.                      *)
(***************************************************************************)
(* variant: a slope of 0.001 *)
lnt_at_slope(dose) == RMul(dose, Dec(1, 1000))

lnt_at(dose) == RMul(dose, Dec(1, 100))

lnt_risk_init == [i \in 1..Len(dose_values_init) |-> lnt_at(dose_values_init[i])]

(***************************************************************************)
(* threshold_risk = np.where(dose_values < threshold_dose, 0,              *)
(*                           (dose_values - threshold_dose) * 0.01)        *)
(***************************************************************************)
threshold_dose == 10

(* variant: the linear branch alone, without np.where *)
threshold_at_no_where(dose) == RMul(RSub(dose, IntR(threshold_dose)), Dec(1, 100))

threshold_at(dose) ==
    IF RLt(dose, IntR(threshold_dose)) THEN Zero
    ELSE RMul(RSub(dose, IntR(threshold_dose)), Dec(1, 100))

threshold_risk_init ==
    [i \in 1..Len(dose_values_init) |-> threshold_at(dose_values_init[i])]

(***************************************************************************)
(* np.exp(q) for q <= 0 is not rational; it is modelled by the enclosure   *)
(*     max(0, 1 + q) <= exp(q) <= 1 / (1 - q),                             *)
(* which is exact at q = 0.  A value computed from it is an interval       *)
(* [lo, hi] that contains the value the program computes.                  *)
(***************************************************************************)
np_exp(q) ==
    [lo |-> RMax(Zero, RAdd(One, q)), hi |-> RDiv(One, RSub(One, q))]

(***************************************************************************)
(* hormesis_risk = -0.005 * np.exp(-dose_values / 20) + dose_values * 0.005*)
(***************************************************************************)
(* variant: the exponential term is added instead of subtracted *)
hormesis_at_sign(dose) ==
    LET e == np_exp(RDiv(RNeg(dose), IntR(20)))
        linear == RMul(dose, Dec(5, 1000))
    IN  [lo |-> RAdd(RMul(Dec(5, 1000), e.lo), linear),
         hi |-> RAdd(RMul(Dec(5, 1000), e.hi), linear)]

hormesis_at(dose) ==
    LET e == np_exp(RDiv(RNeg(dose), IntR(20)))
        linear == RMul(dose, Dec(5, 1000))
    IN  [lo |-> RAdd(RMul(Dec(-5, 1000), e.hi), linear),
         hi |-> RAdd(RMul(Dec(-5, 1000), e.lo), linear)]

hormesis_risk_init ==
    [i \in 1..Len(dose_values_init) |-> hormesis_at(dose_values_init[i])]

(***************************************************************************)
(* app.layout: the ids of the components written in it (the expression as  *)
(* written lacks the comma between some of these children; the model takes *)
(* the children that are listed), and the callback registered by           *)
(* @app.callback(Output(...), [Input(...), Input(...)]).                   *)
(***************************************************************************)
layout_ids ==
    {"introduction", "exposure", "models", "faq", "references", "conclusion", "video"}

callback_output == <<"total-dose-output", "children">>
callback_inputs == << <<"flight-slider", "value">>, <<"xray-slider", "value">> >>

(***************************************************************************)
(* f"{x:.2f}": the value rounded to hundredths (a tie goes to the even     *)
(* hundredth), written with a sign for a negative value, the integer       *)
(* part, a point and exactly two digits.                                   *)
(***************************************************************************)
RoundHundredths(a) ==
    LET num == Abs(a.n) * 100
        q == num \div a.d
        r == num % a.d
    IN  IF 2 * r > a.d \/ (2 * r = a.d /\ q % 2 = 1) THEN q + 1 ELSE q

TwoDigits(k) == IF k < 10 THEN "0" \o ToString(k) ELSE ToString(k)

Format2f(a) ==
    LET h == RoundHundredths(a)
    IN  (IF a.n < 0 THEN "-" ELSE "") \o ToString(h \div 100) \o "." \o TwoDigits(h % 100)

(***************************************************************************)
(* def update_dose(flights, xrays): an int times a float and the sum of    *)
(* two floats are defined; None times a float raises TypeError.            *)
(***************************************************************************)
(* variant: counts outside the slider ranges are rejected *)
update_dose_raises_validating(flights, xrays) ==
    \/ ~IsInt(flights) \/ ~IsInt(xrays)
    \/ flights.v \notin 0..50 \/ xrays.v \notin 0..10

update_dose_raises(flights, xrays) == ~IsInt(flights) \/ ~IsInt(xrays)

(* variant: 0.4 mSv per flight *)
total_dose_of_flight_coefficient(flights, xrays) ==
    RAdd(RMul(IntR(flights.v), Dec(4, 10)), RMul(IntR(xrays.v), Dec(1, 10)))

total_dose_of(flights, xrays) ==
    RAdd(RMul(IntR(flights.v), Dec(4, 100)), RMul(IntR(xrays.v), Dec(1, 10)))

(* variant: the total is written with one decimal *)
update_dose_one_decimal(flights, xrays) ==
    "Your estimated annual radiation dose from selected activities: "
        \o ToString(RoundHundredths(total_dose_of(flights, xrays)) \div 100) \o "."
        \o ToString((RoundHundredths(total_dose_of(flights, xrays)) % 100) \div 10) \o " mSv"

update_dose(flights, xrays) ==
    "Your estimated annual radiation dose from selected activities: "
        \o Format2f(total_dose_of(flights, xrays)) \o " mSv"

(***************************************************************************)
(* State.  The module-level data, the values of the two Inputs as the      *)
(* latest callback request carried them, the local total_dose of the       *)
(* latest run of update_dose that returned, the children of the Output,    *)
(* and the outcome of the latest request.                                  *)
(***************************************************************************)
VARIABLES radiation_sources, df, dose_values, lnt_risk, threshold_risk,
          hormesis_risk, flights, xrays, total_dose, children, status

data == <<radiation_sources, df, dose_values, lnt_risk, threshold_risk, hormesis_risk>>
vars == <<radiation_sources, df, dose_values, lnt_risk, threshold_risk,
          hormesis_risk, flights, xrays, total_dose, children, status>>

FlightCounts == {PyInt(k) : k \in -MaxNeg..MaxFlights}
XrayCounts == {PyInt(k) : k \in -MaxNeg..MaxXrays}

Init ==
    /\ radiation_sources = radiation_sources_init
    /\ df = df_init
    /\ dose_values = dose_values_init
    /\ lnt_risk = lnt_risk_init
    /\ threshold_risk = threshold_risk_init
    /\ hormesis_risk = hormesis_risk_init
    /\ flights = None
    /\ xrays = None
    /\ total_dose = None
    /\ children = None
    /\ status = "idle"

(***************************************************************************)
(* Dash runs the callback with the values of both Inputs.  When            *)
(* update_dose returns, its value becomes the children of the Output; when *)
(* it raises, the Output keeps what it had.                                *)
(***************************************************************************)
(* variant: the callback records each total in radiation_sources *)
dispatch_recording(f, x) ==
    /\ flights' = f
    /\ xrays' = x
    /\ IF update_dose_raises(f, x)
       THEN /\ status' = "error"
            /\ UNCHANGED <<total_dose, children, radiation_sources>>
       ELSE /\ status' = "ok"
            /\ total_dose' = [t |-> "float", v |-> total_dose_of(f, x)]
            /\ children' = [t |-> "str", v |-> update_dose(f, x)]
            /\ radiation_sources' =
                 DictSet(radiation_sources, "Calculator", total_dose_of(f, x))
    /\ UNCHANGED <<df, dose_values, lnt_risk, threshold_risk, hormesis_risk>>

dispatch(f, x) ==
    /\ flights' = f
    /\ xrays' = x
    /\ IF update_dose_raises(f, x)
       THEN /\ status' = "error"
            /\ UNCHANGED <<total_dose, children>>
       ELSE /\ status' = "ok"
            /\ total_dose' = [t |-> "float", v |-> total_dose_of(f, x)]
            /\ children' = [t |-> "str", v |-> update_dose(f, x)]
    /\ UNCHANGED data

(* the call made when the page is loaded: it carries the value of each     *)
(* Input, which is None for an Input that has no value yet                 *)
InitialCall ==
    /\ status = "idle"
    /\ \E f \in FlightCounts \cup {None}, x \in XrayCounts \cup {None} : dispatch(f, x)

(* Input("flight-slider", "value") changes to a number; the other Input    *)
(* keeps its value                                                         *)
FlightChange ==
    /\ status # "idle"
    /\ \E f \in FlightCounts : f # flights /\ dispatch(f, xrays)

(* Input("xray-slider", "value") changes to a number; the other Input      *)
(* keeps its value                                                         *)
XrayChange ==
    /\ status # "idle"
    /\ \E x \in XrayCounts : x # xrays /\ dispatch(flights, x)

Next == InitialCall \/ FlightChange \/ XrayChange

Spec == Init /\ [][Next]_vars

(***************************************************************************)
(* Properties.                                                             *)
(***************************************************************************)
Hundredths(h) == Rat(h, 100)

(* the text of a number of hundredths, written with two decimals *)
HundredthsText(h) ==
    (IF h < 0 THEN "-" ELSE "") \o ToString(Abs(h) \div 100) \o "."
        \o (IF Abs(h) % 100 < 10 THEN "0" ELSE "") \o ToString(Abs(h) % 100)

BothCounts == IsInt(flights) /\ IsInt(xrays)
InSliderRange == BothCounts /\ flights.v \in 0..50 /\ xrays.v \in 0..10

(* C1: for flights in 0..50 and X-rays in 0..10 the total dose computed by *)
(* update_dose is flights * 0.04 + xrays * 0.1, that is (4*flights +       *)
(* 10*xrays) hundredths of a mSv; (0,0) gives 0, (5,1) gives 0.30 and      *)
(* (50,10) gives 3.0.                                                      *)
C1_TotalDose ==
    (status = "ok" /\ InSliderRange) =>
        /\ total_dose.v = Hundredths(4 * flights.v + 10 * xrays.v)
        /\ (flights.v = 0 /\ xrays.v = 0 => total_dose.v = IntR(0))
        /\ (flights.v = 5 /\ xrays.v = 1 => total_dose.v = Rat(3, 10))
        /\ (flights.v = 50 /\ xrays.v = 10 => total_dose.v = IntR(3))

C1_Witness ==
    /\ status = "ok"
    /\ flights = PyInt(5)
    /\ xrays = PyInt(1)
    /\ total_dose = [t |-> "float", v |-> Rat(3, 10)]

C3_Threshold ==
    /\ Len(threshold_risk) = Len(dose_values)
    /\ \A i \in 1..Len(dose_values) :
         LET dose == dose_values[i]
         IN  /\ dose.n < 10 * dose.d => threshold_risk[i] = Zero
             /\ dose.n >= 10 * dose.d =>
                    threshold_risk[i] = Rat(dose.n - 10 * dose.d, 100 * dose.d)
             /\ threshold_risk[i].n >= 0
    /\ \A i \in 1..(Len(threshold_risk) - 1) : RLe(threshold_risk[i], threshold_risk[i + 1])
    /\ threshold_at(IntR(10)) = Zero

C3_Witness ==
    /\ RLt(dose_values[10], IntR(10))
    /\ threshold_risk[10] = Zero
    /\ RLt(IntR(10), dose_values[11])
    /\ threshold_risk[11] = Rat(1, 990)

(* C4: the LNT risk of every axis dose is dose * 0.01, and each of the     *)
(* three curves has one value per axis dose, in the order of the axis.     *)
C4_LNT ==
    /\ Len(lnt_risk) = Len(dose_values)
    /\ Len(threshold_risk) = Len(dose_values)
    /\ Len(hormesis_risk) = Len(dose_values)
    /\ \A i \in 1..Len(dose_values) :
         /\ dose_values[i].n >= 0
         /\ lnt_risk[i] = Rat(dose_values[i].n, 100 * dose_values[i].d)

C4_Witness ==
    /\ Len(lnt_risk) = 100
    /\ dose_values[100] = IntR(100)
    /\ lnt_risk[100] = One
    /\ lnt_risk[2] = Rat(1, 99)

(* C5 as stated: the catalog has the 8 entries Background 3.0, Chest X-ray *)
(* 0.1, Dental X-ray 0.005, Mammogram 0.4, CT Scan (Abdomen) 8.0, Flight   *)
(* (NYC<->LA) 0.04, Smoking (1 pack/day, annual) 70.0, Fukushima           *)
(* Evacuation Zone (annual) 12.0, in this order, and df has the same.      *)
CatalogNames(catalog) == {catalog[i][1] : i \in 1..Len(catalog)}

CatalogWellFormed(catalog) ==
    /\ Len(catalog) = 8
    /\ Cardinality(CatalogNames(catalog)) = 8
    /\ \A i \in 1..Len(catalog) : catalog[i][1] # "" /\ catalog[i][2].n >= 0

TableMatches(table, catalog) ==
    /\ Len(table) = Len(catalog)
    /\ \A i \in 1..Len(catalog) :
         table[i].Source = catalog[i][1] /\ table[i].Dose = catalog[i][2]

C5_CatalogAsStated ==
    /\ CatalogWellFormed(radiation_sources)
    /\ radiation_sources =
         << <<"Background", Rat(3, 1)>>,
            <<"Chest X-ray", Rat(1, 10)>>,
            <<"Dental X-ray", Rat(5, 1000)>>,
            <<"Mammogram", Rat(4, 10)>>,
            <<"CT Scan (Abdomen)", Rat(8, 1)>>,
            <<"Flight (NYC↔LA)", Rat(4, 100)>>,
            <<"Smoking (1 pack/day, annual)", Rat(70, 1)>>,
            <<"Fukushima Evacuation Zone (annual)", Rat(12, 1)>> >>
    /\ TableMatches(df, radiation_sources)

(* C5 amended: the catalog has 8 entries with pairwise distinct non-empty  *)
(* names and non-negative doses, in this order: Background Radiation       *)
(* (Annual Avg) 3.0, Chest X-ray 0.1, Dental X-ray 0.005, Mammogram 0.4,   *)
(* CT Scan (Abdomen) 8.0, Flight (NYC to LA) 0.04, Smoking (1 pack/day,    *)
(* Annual) 70.0, Fukushima Evacuation Zone (Annual) 12.0; df has the same  *)
(* entries in the same order.                                              *)
C5_Catalog ==
    /\ CatalogWellFormed(radiation_sources)
    /\ radiation_sources =
         << <<"Background Radiation (Annual Avg)", Rat(3, 1)>>,
            <<"Chest X-ray", Rat(1, 10)>>,
            <<"Dental X-ray", Rat(5, 1000)>>,
            <<"Mammogram", Rat(4, 10)>>,
            <<"CT Scan (Abdomen)", Rat(8, 1)>>,
            <<"Flight (NYC to LA)", Rat(4, 100)>>,
            <<"Smoking (1 pack/day, Annual)", Rat(70, 1)>>,
            <<"Fukushima Evacuation Zone (Annual)", Rat(12, 1)>> >>
    /\ TableMatches(df, radiation_sources)

C5_Witness ==
    /\ Len(radiation_sources) = 8
    /\ radiation_sources[1][1] = "Background Radiation (Annual Avg)"
    /\ radiation_sources[6] = <<"Flight (NYC to LA)", Rat(1, 25)>>
    /\ df[8] = [Source |-> "Fukushima Evacuation Zone (Annual)", Dose |-> IntR(12)]

(* C6: the dose axis has exactly 100 points, the first is 0, the last is   *)
(* 100, point i (from 0) is 100*i/99, so the points are evenly spaced and  *)
(* strictly increasing.                                                    *)
C6_DoseAxis ==
    /\ Len(dose_values) = 100
    /\ dose_values[1] = IntR(0)
    /\ dose_values[Len(dose_values)] = IntR(100)
    /\ \A i \in 0..99 : dose_values[i + 1] = Rat(100 * i, 99)
    /\ \A i \in 1..(Len(dose_values) - 1) :
         /\ RLt(dose_values[i], dose_values[i + 1])
         /\ RSub(dose_values[i + 1], dose_values[i]) = RSub(dose_values[2], dose_values[1])

C6_Witness ==
    /\ Len(dose_values) = 100
    /\ dose_values[2] = Rat(100, 99)
    /\ dose_values[100] = IntR(100)

(* C7: for every pair of integers, also outside 0..50 and 0..10,           *)
(* update_dose returns the result of the same formula: it does not raise,  *)
(* validate or clamp.                                                      *)
C7_Total ==
    (status # "idle" /\ BothCounts) =>
        /\ status = "ok"
        /\ total_dose = [t |-> "float", v |-> Hundredths(4 * flights.v + 10 * xrays.v)]

C7_Witness ==
    /\ status = "ok"
    /\ flights = PyInt(-2)
    /\ xrays = PyInt(12)
    /\ total_dose.v = Rat(112, 100)

(* C8: after any sequence of calculator invocations radiation_sources, df, *)
(* dose_values, lnt_risk, threshold_risk and hormesis_risk are equal to    *)
(* the values they were given when the module was loaded.                  *)
C8_DataUnchanged ==
    /\ radiation_sources = radiation_sources_init
    /\ df = df_init
    /\ dose_values = dose_values_init
    /\ lnt_risk = lnt_risk_init
    /\ threshold_risk = threshold_risk_init
    /\ hormesis_risk = hormesis_risk_init

C8_Witness ==
    /\ status = "ok"
    /\ flights = PyInt(50)
    /\ xrays = PyInt(0)
    /\ Len(radiation_sources) = 8
    /\ Len(hormesis_risk) = 100

(* C9: the layout contains the components 'flight-slider', 'xray-slider'   *)
(* and 'total-dose-output' that the callback is bound to, and every        *)
(* invocation of the calculator has flights in 0..50 and X-rays in 0..10.  *)
C9_SlidersInLayout ==
    /\ callback_output[1] \in layout_ids
    /\ \A k \in 1..Len(callback_inputs) : callback_inputs[k][1] \in layout_ids
    /\ (status # "idle" => InSliderRange)

(* C10: the hormesis risk at dose 0 is exactly -0.005, so the first point  *)
(* of the curve is negative, and from some point of the axis on the curve  *)
(* is non-negative.                                                        *)
C10_Hormesis ==
    /\ dose_values[1] = Zero
    /\ hormesis_risk[1] = [lo |-> Rat(-5, 1000), hi |-> Rat(-5, 1000)]
    /\ \E i \in 2..Len(hormesis_risk) :
         \A j \in i..Len(hormesis_risk) : RLe(Zero, hormesis_risk[j].lo)

C10_Witness ==
    /\ hormesis_risk[1].hi.n < 0
    /\ RLt(Zero, hormesis_risk[2].lo)
    /\ RLt(Zero, hormesis_risk[100].lo)
====
